---- MODULE Spec2Model ----
(***************************************************************************)
(* BaseEntity.load(lensFn): declarative traversal of the entity graph.     *)
(*                                                                         *)
(* load records the property accesses that the lens function performs on   *)
(* a Proxy, then replays the recorded names against the real entities:     *)
(* `current[path].load()` on a single entity, or on every member of an     *)
(* array followed by `.flat()` and `[...new Set(current)]`.                *)
(***************************************************************************)
EXTENDS Integers, Sequences, FiniteSets

(* ------------------------------ bounds --------------------------------- *)

\* number of entities in the graph
NumNodes == 3
\* longest lens function, in property accesses
MaxPath == 3
\* the images the entity manager holds
NumImages == 3
\* the largest sortOrder of an image type
MaxSortOrder == 2

(* ------------------------------ values --------------------------------- *)

Nodes == 1..NumNodes

\* the JavaScript value `undefined`: what an unset reference loads to
Undef == 0

\* relation names: a Reference (many-to-one) and a Collection (one-to-many)
SingularEdges == {"author"}
PluralEdges == {"books"}
Hops == SingularEdges \cup PluralEdges

\* A JavaScript value held by `current`, or produced by one `.load()`:
\* an array (isArray) with its elements, or a lone value kept in items[1].
Single(v) == [isArray |-> FALSE, items |-> <<v>>]
Array(s) == [isArray |-> TRUE, items |-> s]
NoValue == [isArray |-> FALSE, items |-> <<>>]

NoError == [kind |-> "none", node |-> 0, hop |-> ""]
\* `undefined[path]`: reading a property of undefined throws
TypeError == [kind |-> "TypeError", node |-> 0, hop |-> ""]
\* the rejection of entity n's relation h, as the data provider raises it
LoadError(n, h) == [kind |-> "EdgeResolutionError", node |-> n, hop |-> h]

Range(s) == {s[i] : i \in 1..Len(s)}

(* ------------------------- the entity graph ---------------------------- *)

Succ(n) == (n % NumNodes) + 1

\* every assignment of the reference: unset, or pointing at one of the
\* first two entities (the collections below reach the others)
ReferenceMaps == [Nodes -> {Undef, 1, 2}]

\* collections: each holds distinct entities, in the order the provider gives
Ring == [n \in Nodes |-> <<Succ(n), Succ(Succ(n))>>]
Tree == [n \in Nodes |-> IF n = 1 THEN <<3, 2>> ELSE <<>>]
Pair == [n \in Nodes |-> IF n = 1 THEN <<2, 3>> ELSE <<1, n>>]
CollectionMaps == {Ring, Tree, Pair}

\* a collection whose loaded array lists one of its entities twice
Twice == [n \in Nodes |-> <<Succ(n), Succ(Succ(n)), Succ(n)>>]

(* --------------------------- lens functions ---------------------------- *)

\* A lens function is the list of property reads it performs. Each read is
\* made either on the value the previous read returned ("last": a chain,
\* x.author.books) or again on the function's argument ("arg": a separate
\* statement, x.author; x.books). The first read is always on the argument.
Accesses == [target : {"arg", "last"}, property : Hops]

\* a pure chain of property accesses: the documented use of the lens
IsChain(f) == \A i \in 1..Len(f) : f[i].target = (IF i = 1 THEN "arg" ELSE "last")
\* every read made on the argument itself
IsStatements(f) == \A i \in 1..Len(f) : f[i].target = "arg"

RECURSIVE SeqsUpTo(_, _)
SeqsUpTo(S, n) ==
    IF n = 0 THEN {<<>>}
    ELSE LET shorter == SeqsUpTo(S, n - 1)
         IN shorter \cup {Append(s, x) : s \in {t \in shorter : Len(t) = n - 1}, x \in S}

LensFns == {f \in SeqsUpTo(Accesses, MaxPath) : IsChain(f) \/ IsStatements(f)}

VARIABLES
    graph,      \* [ref, coll]: what each entity's relations load to
    self,       \* the entity load is called on
    fn,         \* the lens function passed to load
    pc,         \* "init", "loop", "await", "done", "failed"
    paths,      \* the recorded property names (line 48)
    idx,        \* position of the for-await iterator in paths (1-based)
    current,    \* the frontier (line 60)
    pending,    \* the .load() promises of the hop in progress
    issued,     \* every .load() call made so far, in call order
    failures,   \* the errors of the .load() promises that rejected, in time order
    frontiers,  \* history: every value `current` has held
    result,     \* the value load's promise fulfilled with
    error,      \* the error load's promise rejected with
    other,      \* a second call of load in flight on the same graph
    em          \* the entity manager's images, and the last allImages call

\* the variables of the first call
walk == <<graph, self, fn, pc, paths, idx, current, pending, issued, failures,
          frontiers, result, error>>

vars == <<walk, other, em>>

(* ------------------------- path recorder -------------------------------- *)

\* String(property) on a string-keyed property
StringOf(property) == property

\* a get trap that puts the name in front (unshift for push)
ProxyGetUnshift(ps, access) == <<StringOf(access.property)>> \o ps

\* a get trap that starts a new list whenever the argument itself is read
ProxyGetRestart(ps, access) ==
    IF access.target = "arg" THEN <<StringOf(access.property)>>
    ELSE Append(ps, StringOf(access.property))

\* the Proxy's get trap: paths.push(String(property)); return receiver
ProxyGet(ps, access) == Append(ps, StringOf(access.property))

\* fn(proxy): every read of the function goes through the get trap; the
\* trap returns the proxy itself, so a read on the argument and a read on
\* the previous result reach the same trap
RECURSIVE Record(_, _)
Record(ps, f) ==
    IF f = <<>> THEN ps ELSE Record(ProxyGet(ps, Head(f)), Tail(f))

(* ------------------------- edge resolution ------------------------------ *)

\* entity[h].load(): a Collection loads to the array of its entities, a
\* Reference to its entity or to undefined when unset
Resolve(n, h) ==
    IF h \in PluralEdges THEN Array(graph.coll[n]) ELSE Single(graph.ref[n])

(* --------------------------- graph walker ------------------------------- *)

\* a flat that puts later members' values first
RECURSIVE FlatBackward(_)
FlatBackward(values) ==
    IF values = <<>> THEN <<>> ELSE FlatBackward(Tail(values)) \o Head(values).items

\* Array.prototype.flat(): one level; elements that are not arrays stay
RECURSIVE Flat(_)
Flat(values) ==
    IF values = <<>> THEN <<>> ELSE Head(values).items \o Flat(Tail(values))

\* a de-duplication that only drops a value equal to the one just before it
RECURSIVE DedupAdjacent(_)
DedupAdjacent(xs) ==
    IF Len(xs) <= 1 THEN xs
    ELSE LET init == DedupAdjacent(SubSeq(xs, 1, Len(xs) - 1))
             last == xs[Len(xs)]
         IN IF last = xs[Len(xs) - 1] THEN init ELSE Append(init, last)

\* [...new Set(xs)]: insertion order, each value once
RECURSIVE Dedup(_)
Dedup(xs) ==
    IF xs = <<>> THEN <<>>
    ELSE IF xs[Len(xs)] \in Range(SubSeq(xs, 1, Len(xs) - 1))
         THEN Dedup(SubSeq(xs, 1, Len(xs) - 1))
         ELSE Append(Dedup(SubSeq(xs, 1, Len(xs) - 1)), xs[Len(xs)])

\* a combination that hands back a lone element instead of a one-element array
CombineUnwrap(values) ==
    LET xs == Dedup(Flat(values))
    IN IF Len(xs) = 1 THEN Single(xs[1]) ELSE Array(xs)

\* lines 63-64: the batch's values, by position, flattened and de-duplicated
Combine(values) == Array(Dedup(Flat(values)))

\* an iterator that steps over the name after the one just walked
AdvanceSkip(i) == i + 2

\* line 61: the for-await iterator moves to the next recorded name
Advance(i) == i + 1

\* an await that de-duplicates a loaded array
AwaitSingleDedup(v) == IF v.isArray THEN Array(Dedup(v.items)) ELSE v

\* line 66: current = await current[path].load(): the loaded value as it is
AwaitSingle(v) == v

\* a return that always hands back an array
ReturnValueAsArray(cur) == Array(cur.items)

\* `return current!`
ReturnValue(cur) == cur

\* a .load() promise: the entity it was called on, its state, the value it
\* fulfilled with, and its place in the order in which its batch settled
Promise(n) == [node |-> n, status |-> "pending", value |-> NoValue, order |-> 0]

\* the number of promises of the batch that have settled
Settled(ps) == Cardinality({j \in 1..Len(ps) : ps[j].status # "pending"})

\* promise k fulfils with what its relation loads to
Fulfil(ps, k, h) ==
    [ps EXCEPT ![k].status = "fulfilled", ![k].value = Resolve(ps[k].node, h),
               ![k].order = Settled(ps) + 1]

\* promise k rejects
Refuse(ps, k) == [ps EXCEPT ![k].status = "rejected", ![k].order = Settled(ps) + 1]

\* a wait that ends as soon as one promise has fulfilled (Promise.any)
AnyFulfilled(ps) == \E j \in 1..Len(ps) : ps[j].status = "fulfilled"

\* line 63: Promise.all fulfils once every promise of the batch has fulfilled
AllFulfilled(ps) == \A j \in 1..Len(ps) : ps[j].status = "fulfilled"

\* the values of the fulfilled promises in the order in which they fulfilled
ValuesByCompletion(ps) ==
    [r \in 1..Len(ps) |-> ps[CHOOSE j \in 1..Len(ps) : ps[j].order = r].value]

\* line 63: Promise.all fulfils with the promises' values by position
ValuesOf(ps) == [i \in 1..Len(ps) |-> ps[i].value]

\* position of the first undefined member of xs, or Len(xs) + 1
FirstUndef(xs) ==
    IF \E i \in 1..Len(xs) : xs[i] = Undef
    THEN CHOOSE i \in 1..Len(xs) : xs[i] = Undef /\ \A j \in 1..(i - 1) : xs[j] # Undef
    ELSE Len(xs) + 1

(* ------------------------- Publisher.allImages -------------------------- *)

\* the publisher, the authors and the books of the entity manager; None is
\* an unset reference
None == "none"
Pub == "p1"
Authors == {"a1", "a2"}
Books == {"b1", "b2"}
Images == 1..NumImages

\* the codes of the ImageType enum
ImageTypeCodes == {"BookImage", "AuthorImage", "PublisherImage"}

\* an Image entity: its type and its three owner references
ImageOf(t, a, b, p) == [type |-> t, author |-> a, book |-> b, publisher |-> p]

\* images as they are created: one owner, and the type that names it
OwnedImages ==
    {ImageOf("AuthorImage", a, None, None) : a \in Authors}
    \cup {ImageOf("BookImage", None, b, None) : b \in Books}
    \cup {ImageOf("PublisherImage", None, None, Pub)}

\* author.image and book.image are one-to-one: no two images share an owner
OneToOne(im) ==
    \A v, w \in Images : v # w =>
        /\ im[v].author = None \/ im[v].author # im[w].author
        /\ im[v].book = None \/ im[v].book # im[w].book

\* publisher.authors.get: the publisher's authors, as loaded
AuthorLists == {<<"a1", "a2">>, <<"a2">>}

\* author.books.get for every author
BookLists ==
    {[a \in Authors |-> IF a = "a1" THEN <<"b1">> ELSE <<"b2">>],
     [a \in Authors |-> IF a = "a1" THEN <<>> ELSE <<"b2", "b1">>]}

\* ImageTypes.findByCode(code).sortOrder for every code
SortOrders == [ImageTypeCodes -> 1..MaxSortOrder]

\* the last allImages call: its name, its argument, what includes(value)
\* gave (lines 44, 53) and what the call returned; at first none has been made
NoOp == [name |-> "none", value |-> Undef, included |-> FALSE, returned |-> <<>>]

\* an entity manager without images
NoImages ==
    [image |-> <<>>, authors |-> <<>>, books |-> [a \in Authors |-> <<>>],
     sortOrder |-> [t \in ImageTypeCodes |-> 1], deleted |-> {}, op |-> NoOp]

\* loaded.images.get: the images whose publisher is the entity, by id
RECURSIVE ImagesOfPublisher(_, _)
ImagesOfPublisher(e, n) ==
    IF n = 0 THEN <<>>
    ELSE IF e.image[n].publisher = Pub
         THEN Append(ImagesOfPublisher(e, n - 1), n)
         ELSE ImagesOfPublisher(e, n - 1)

\* author.image.get: the author's image, or undefined
ImageOfAuthor(e, a) ==
    IF \E v \in Images : e.image[v].author = a
    THEN CHOOSE v \in Images : e.image[v].author = a
    ELSE Undef

\* book.image.get: the book's image, or undefined
ImageOfBook(e, b) ==
    IF \E v \in Images : e.image[v].book = b
    THEN CHOOSE v \in Images : e.image[v].book = b
    ELSE Undef

\* lines 33-35: the reducer pushes the author's image, then each book's
PushAuthor(e, acc, a) ==
    Append(acc, ImageOfAuthor(e, a))
        \o [k \in 1..Len(e.books[a]) |-> ImageOfBook(e, e.books[a][k])]

\* lines 31-38: reduce over the authors, starting from a copy of images.get
RECURSIVE Reduce(_, _, _)
Reduce(e, as, init) ==
    IF as = <<>> THEN init
    ELSE PushAuthor(e, Reduce(e, SubSeq(as, 1, Len(as) - 1), init), as[Len(as)])

IsDefined(x) == x # Undef

\* line 39: .filter((imageOrUndefined) => imageOrUndefined !== undefined)
Filter(xs) == SelectSeq(xs, IsDefined)

\* line 40: the comparator's key
SortKey(e, v) == e.sortOrder[e.image[v].type]

\* a sort that leaves the array as it is
KeepOrder(e, xs) == xs

\* line 40: Array.prototype.sort with the comparator a.sortOrder - b.sortOrder:
\* stable, so images with equal keys keep their order
RECURSIVE Sort(_, _)
Sort(e, xs) ==
    IF xs = <<>> THEN <<>>
    ELSE Sort(e, SelectSeq(SubSeq(xs, 1, Len(xs) - 1),
                           LAMBDA y : SortKey(e, y) <= SortKey(e, xs[Len(xs)])))
         \o <<xs[Len(xs)]>>
         \o Sort(e, SelectSeq(SubSeq(xs, 1, Len(xs) - 1),
                              LAMBDA y : SortKey(e, y) > SortKey(e, xs[Len(xs)])))

\* lines 27-41: allImages.get
AllImagesGet(e) == Sort(e, Filter(Reduce(e, e.authors, ImagesOfPublisher(e, NumImages))))

\* lines 44, 53: allImages.get.includes(value)
Includes(e, v) == v \in Range(AllImagesGet(e))

\* an adoption that leaves the image with its book
AdoptKeepBook(im) ==
    [im EXCEPT !.type = "PublisherImage", !.author = None, !.publisher = Pub]

\* lines 45-48: the image becomes a publisher image of the entity
Adopt(im) ==
    [im EXCEPT !.type = "PublisherImage", !.author = None, !.book = None,
               !.publisher = Pub]

\* a call of load: its receiver, its lens function, and its locals
Call(n, f) ==
    [self |-> n, fn |-> f, pc |-> "init", paths |-> <<>>, idx |-> 1,
     current |-> NoValue, pending |-> <<>>, result |-> NoValue, error |-> NoError]

\* no second call is made
NoCall == [Call(1, <<>>) EXCEPT !.pc = "none"]

\* a module-level array: a call records onto what earlier calls recorded
ReusedPaths(existing) == existing

\* line 48: const paths: string[] = []: every call starts a new empty array,
\* whatever other calls have recorded
FreshPaths(existing) == <<>>

Init ==
    /\ graph \in [ref : ReferenceMaps, coll : CollectionMaps]
    /\ self \in Nodes
    /\ fn \in LensFns
    /\ pc = "init"
    /\ paths = <<>>
    /\ idx = 1
    /\ current = NoValue
    /\ pending = <<>>
    /\ issued = <<>>
    /\ failures = <<>>
    /\ frontiers = <<>>
    /\ result = NoValue
    /\ error = NoError
    /\ other = NoCall
    /\ em = NoImages

\* lines 48-60: record the lens function, start at `this`
Load ==
    /\ pc = "init"
    /\ paths' = Record(FreshPaths(other.paths), fn)
    /\ current' = Single(self)
    /\ frontiers' = <<Single(self)>>
    /\ idx' = 1
    /\ pc' = "loop"
    /\ UNCHANGED <<em, other, graph, self, fn, pending, issued, failures, result, error>>

\* lines 61, 66: next path, current is not an array: current[path].load()
IssueSingle ==
    /\ pc = "loop"
    /\ idx <= Len(paths)
    /\ ~current.isArray
    /\ IF current.items[1] = Undef
       THEN /\ pc' = "failed"
            /\ error' = TypeError
            /\ pending' = <<>>
            /\ UNCHANGED issued
       ELSE /\ pc' = "await"
            /\ pending' = <<Promise(current.items[1])>>
            /\ issued' = Append(issued, [node |-> current.items[1], hop |-> paths[idx], at |-> idx])
            /\ UNCHANGED error
    /\ UNCHANGED <<em, other, graph, self, fn, paths, idx, current, failures, frontiers, result>>

\* lines 61-63: next path, current is an array: current.map(c => c[path].load())
\* calls load on the members in order; an undefined member throws out of map,
\* leaving the promises of the members before it in flight
IssueBatch ==
    /\ pc = "loop"
    /\ idx <= Len(paths)
    /\ current.isArray
    /\ LET k == FirstUndef(current.items)
           calls == [i \in 1..(k - 1) |-> current.items[i]]
       IN /\ pending' = [i \in 1..(k - 1) |-> Promise(calls[i])]
          /\ issued' = issued \o [i \in 1..(k - 1) |->
                                    [node |-> calls[i], hop |-> paths[idx], at |-> idx]]
          /\ IF k <= Len(current.items)
             THEN pc' = "failed" /\ error' = TypeError
             ELSE pc' = "await" /\ UNCHANGED error
    /\ UNCHANGED <<em, other, graph, self, fn, paths, idx, current, failures, frontiers, result>>

\* line 66: the awaited promise fulfils; current becomes its value
ResolveSingle ==
    /\ pc = "await"
    /\ ~current.isArray
    /\ pending[1].status = "pending"
    /\ LET settled == Fulfil(pending, 1, paths[idx])
           v == AwaitSingle(settled[1].value)
       IN /\ pending' = settled
          /\ current' = v
          /\ frontiers' = Append(frontiers, v)
    /\ idx' = Advance(idx)
    /\ pc' = "loop"
    /\ UNCHANGED <<em, other, graph, self, fn, paths, issued, failures, result, error>>

\* a member's promise fulfils while others of the batch are still pending,
\* or after load has already failed: nothing continues yet
FulfilMember(k) ==
    /\ k \in 1..Len(pending)
    /\ pending[k].status = "pending"
    /\ \/ pc = "failed"
       \/ pc = "await" /\ current.isArray /\ ~AllFulfilled(Fulfil(pending, k, paths[idx]))
    /\ pending' = Fulfil(pending, k, paths[idx])
    /\ UNCHANGED <<em, other, graph, self, fn, pc, paths, idx, current, issued, failures,
                   frontiers, result, error>>

\* lines 63-64: the last pending promise of the batch fulfils: Promise.all
\* fulfils with the values by position, then .flat() and [...new Set(..)]
CompleteBatch(k) ==
    /\ pc = "await"
    /\ current.isArray
    /\ k \in 1..Len(pending)
    /\ pending[k].status = "pending"
    /\ AllFulfilled(Fulfil(pending, k, paths[idx]))
    /\ LET settled == Fulfil(pending, k, paths[idx])
           next == Combine(ValuesOf(settled))
       IN /\ pending' = settled
          /\ current' = next
          /\ frontiers' = Append(frontiers, next)
    /\ idx' = Advance(idx)
    /\ pc' = "loop"
    /\ UNCHANGED <<em, other, graph, self, fn, paths, issued, failures, result, error>>

\* a wait for the whole batch that never ends when the batch is empty
EmptyBatchNever == FALSE /\ UNCHANGED vars

\* lines 63-64 on an empty array: Promise.all([]) fulfils with []
EmptyBatch ==
    /\ pc = "await"
    /\ current.isArray
    /\ pending = <<>>
    /\ current' = Combine(<<>>)
    /\ frontiers' = Append(frontiers, current')
    /\ idx' = Advance(idx)
    /\ pc' = "loop"
    /\ UNCHANGED <<em, other, graph, self, fn, paths, pending, issued, failures, result, error>>

\* a rejection that is caught and skipped: the walk goes on to the next name
RejectSkipHop(k) ==
    /\ pc = "await"
    /\ k \in 1..Len(pending)
    /\ pending[k].status = "pending"
    /\ pending' = Refuse(pending, k)
    /\ failures' = Append(failures, LoadError(pending[k].node, paths[idx]))
    /\ frontiers' = Append(frontiers, current)
    /\ idx' = Advance(idx)
    /\ pc' = "loop"
    /\ UNCHANGED <<em, other, graph, self, fn, paths, current, issued, result, error>>

\* a promise load is awaiting rejects (alone, or first of its batch): the
\* await throws the same error out of load
Reject(k) ==
    /\ pc = "await"
    /\ k \in 1..Len(pending)
    /\ pending[k].status = "pending"
    /\ pending' = Refuse(pending, k)
    /\ failures' = Append(failures, LoadError(pending[k].node, paths[idx]))
    /\ error' = LoadError(pending[k].node, paths[idx])
    /\ pc' = "failed"
    /\ UNCHANGED <<em, other, graph, self, fn, paths, idx, current, issued, frontiers, result>>

\* a promise rejects after load has already failed: nobody is listening
RejectLate(k) ==
    /\ pc = "failed"
    /\ k \in 1..Len(pending)
    /\ pending[k].status = "pending"
    /\ pending' = Refuse(pending, k)
    /\ failures' = Append(failures, LoadError(pending[k].node, paths[idx]))
    /\ UNCHANGED <<em, other, graph, self, fn, pc, paths, idx, current, issued, frontiers,
                   result, error>>

\* lines 61, 69: the iterator is exhausted: return current
Return ==
    /\ pc = "loop"
    /\ idx > Len(paths)
    /\ result' = ReturnValue(current)
    /\ pc' = "done"
    /\ UNCHANGED <<em, other, graph, self, fn, paths, idx, current, pending, issued, failures,
                   frontiers, error>>

Next ==
    \/ Load
    \/ IssueSingle
    \/ IssueBatch
    \/ ResolveSingle
    \/ \E k \in 1..NumNodes + 1 : FulfilMember(k)
    \/ \E k \in 1..NumNodes + 1 : CompleteBatch(k)
    \/ EmptyBatch
    \/ \E k \in 1..NumNodes + 1 : Reject(k)
    \/ \E k \in 1..NumNodes + 1 : RejectLate(k)
    \/ Return

Spec == Init /\ [][Next]_vars

\* graphs with cycles: references 1 -> 2 -> 1, or 1 unset and the others
\* pointing at 1; collections in a ring, or a tree with empty leaves
CyclicReferences ==
    {[n \in Nodes |-> IF n = 1 THEN 2 ELSE 1], [n \in Nodes |-> IF n = 1 THEN Undef ELSE 1]}

InitCyclic ==
    /\ graph \in [ref : CyclicReferences, coll : {Ring, Tree}]
    /\ self \in Nodes
    /\ fn \in {f \in LensFns : IsChain(f)}
    /\ pc = "init"
    /\ paths = <<>>
    /\ idx = 1
    /\ current = NoValue
    /\ pending = <<>>
    /\ issued = <<>>
    /\ failures = <<>>
    /\ frontiers = <<>>
    /\ result = NoValue
    /\ error = NoError
    /\ other = NoCall
    /\ em = NoImages

\* load's own code runs whenever it can (the job queue runs every ready
\* continuation), and every .load() promise in flight eventually settles:
\* as long as a step is possible, a step is taken
FairSpec == InitCyclic /\ [][Next]_vars /\ WF_vars(Next)

\* lines 53-56 after line 59: the proxy outlives fn(proxy); a lens function
\* that kept a reference to it reads a property while load is suspended at
\* an await. The trap pushes onto the same array the for-await iterator of
\* line 61 is reading, and the iterator compares its index with the array's
\* length at every step
LateGet ==
    /\ pc = "await"
    /\ Len(paths) < MaxPath
    /\ \E h \in Hops : paths' = ProxyGet(paths, [target |-> "arg", property |-> h])
    /\ UNCHANGED <<em, other, graph, self, fn, pc, idx, current, pending, issued, failures,
                   frontiers, result, error>>

NextLeak == Next \/ LateGet

\* load called with a lens function that may keep the proxy and read it later
SpecLeak == InitCyclic /\ [][NextLeak]_vars

(* ------------------------- a second call -------------------------------- *)

\* lines 48-60 in the second call: its own paths array, its own current
OtherLoad ==
    /\ other.pc = "init"
    /\ other' = [other EXCEPT !.paths = Record(FreshPaths(paths), other.fn),
                              !.current = Single(other.self),
                              !.idx = 1,
                              !.pc = "loop"]
    /\ UNCHANGED <<walk, em>>

\* lines 61-63, 66 in the second call: .load() on the frontier's members in
\* order; an undefined member (or an undefined lone value) throws
OtherIssue ==
    /\ other.pc = "loop"
    /\ other.idx <= Len(other.paths)
    /\ other' =
          IF FirstUndef(other.current.items) <= Len(other.current.items)
          THEN [other EXCEPT !.pc = "failed", !.error = TypeError]
          ELSE [other EXCEPT !.pc = "await",
                             !.pending = [i \in 1..Len(other.current.items) |->
                                            Promise(other.current.items[i])]]
    /\ UNCHANGED <<walk, em>>

\* lines 63-66 in the second call: a promise fulfils; with the last one the
\* await ends and the loop moves on
OtherFulfil(k) ==
    /\ other.pc = "await"
    /\ k \in 1..Len(other.pending)
    /\ other.pending[k].status = "pending"
    /\ other' =
          IF AllFulfilled(Fulfil(other.pending, k, other.paths[other.idx]))
          THEN [other EXCEPT
                  !.pending = Fulfil(other.pending, k, other.paths[other.idx]),
                  !.current =
                      IF other.current.isArray
                      THEN Combine(ValuesOf(Fulfil(other.pending, k, other.paths[other.idx])))
                      ELSE AwaitSingle(Fulfil(other.pending, k, other.paths[other.idx])[1].value),
                  !.idx = Advance(other.idx),
                  !.pc = "loop"]
          ELSE [other EXCEPT !.pending = Fulfil(other.pending, k, other.paths[other.idx])]
    /\ UNCHANGED <<walk, em>>

\* lines 63-64 in the second call, on an empty array
OtherEmptyBatch ==
    /\ other.pc = "await"
    /\ other.pending = <<>>
    /\ other' = [other EXCEPT !.current = Combine(<<>>),
                              !.idx = Advance(other.idx),
                              !.pc = "loop"]
    /\ UNCHANGED <<walk, em>>

\* a promise the second call is awaiting rejects
OtherReject(k) ==
    /\ other.pc = "await"
    /\ k \in 1..Len(other.pending)
    /\ other.pending[k].status = "pending"
    /\ other' = [other EXCEPT
                   !.pending = Refuse(other.pending, k),
                   !.error = LoadError(other.pending[k].node, other.paths[other.idx]),
                   !.pc = "failed"]
    /\ UNCHANGED <<walk, em>>

\* lines 61, 69 in the second call
OtherReturn ==
    /\ other.pc = "loop"
    /\ other.idx > Len(other.paths)
    /\ other' = [other EXCEPT !.result = ReturnValue(other.current), !.pc = "done"]
    /\ UNCHANGED <<walk, em>>

\* the lens functions of the two calls: chains shorter than the longest
ShortChains == {f \in LensFns : IsChain(f) /\ Len(f) < MaxPath}

\* two calls, on the same root or on different roots of one graph
InitTwo ==
    /\ graph \in [ref : CyclicReferences, coll : {Ring, Tree}]
    /\ self \in Nodes
    /\ fn \in ShortChains
    /\ pc = "init"
    /\ paths = <<>>
    /\ idx = 1
    /\ current = NoValue
    /\ pending = <<>>
    /\ issued = <<>>
    /\ failures = <<>>
    /\ frontiers = <<>>
    /\ result = NoValue
    /\ error = NoError
    /\ other \in {Call(n, f) : n \in Nodes, f \in ShortChains}
    /\ em = NoImages

NextTwo ==
    \/ Next
    \/ OtherLoad
    \/ OtherIssue
    \/ \E k \in 1..NumNodes + 1 : OtherFulfil(k)
    \/ OtherEmptyBatch
    \/ \E k \in 1..NumNodes + 1 : OtherReject(k)
    \/ OtherReturn

\* the steps of the two calls in every interleaving
SpecTwo == InitTwo /\ [][NextTwo]_vars

(* ------------------------- allImages calls ------------------------------ *)

\* lines 27-41: publisher.allImages.get
Get ==
    /\ em' = [em EXCEPT
                !.op = [name |-> "get", value |-> Undef, included |-> FALSE,
                        returned |-> AllImagesGet(em)]]
    /\ UNCHANGED <<walk, other>>

\* lines 42-50: publisher.allImages.add(value)
Add(v) ==
    /\ em' = [em EXCEPT
                !.image = IF Includes(em, v) THEN em.image
                          ELSE [em.image EXCEPT ![v] = Adopt(em.image[v])],
                !.op = [name |-> "add", value |-> v, included |-> Includes(em, v),
                        returned |-> <<>>]]
    /\ UNCHANGED <<walk, other>>

\* lines 51-56: publisher.allImages.remove(value)
Remove(v) ==
    /\ em' = [em EXCEPT
                !.deleted = IF Includes(em, v) THEN em.deleted \cup {v} ELSE em.deleted,
                !.op = [name |-> "remove", value |-> v, included |-> Includes(em, v),
                        returned |-> <<>>]]
    /\ UNCHANGED <<walk, other>>

\* a loaded publisher with its authors, their books, and the images
InitImages ==
    /\ graph = [ref |-> [n \in Nodes |-> Undef], coll |-> Tree]
    /\ self = 1
    /\ fn = <<>>
    /\ pc = "none"
    /\ paths = <<>>
    /\ idx = 1
    /\ current = NoValue
    /\ pending = <<>>
    /\ issued = <<>>
    /\ failures = <<>>
    /\ frontiers = <<>>
    /\ result = NoValue
    /\ error = NoError
    /\ other = NoCall
    /\ em \in {[image |-> im, authors |-> as, books |-> bs, sortOrder |-> so,
                 deleted |-> {}, op |-> NoOp] :
                    im \in {f \in [Images -> OwnedImages] : OneToOne(f)},
                    as \in AuthorLists, bs \in BookLists, so \in SortOrders}

NextImages ==
    \/ Get
    \/ \E v \in Images : Add(v)
    \/ \E v \in Images : Remove(v)

\* allImages.get, add and remove called in any order
SpecImages == InitImages /\ [][NextImages]_vars

\* the same walk over graphs whose collections may list an entity twice
InitRepeats ==
    /\ graph \in [ref : ReferenceMaps, coll : {Twice, Tree}]
    /\ self \in Nodes
    /\ fn \in LensFns
    /\ pc = "init"
    /\ paths = <<>>
    /\ idx = 1
    /\ current = NoValue
    /\ pending = <<>>
    /\ issued = <<>>
    /\ failures = <<>>
    /\ frontiers = <<>>
    /\ result = NoValue
    /\ error = NoError
    /\ other = NoCall
    /\ em = NoImages

SpecRepeats == InitRepeats /\ [][Next]_vars

(* ======================== properties of load =========================== *)

\* the property names a lens function reads, in the order it reads them
Names(f) == [i \in 1..Len(f) |-> f[i].property]

HasPlural(ps, n) == \E j \in 1..n : ps[j] \in PluralEdges
AllSingular(ps) == \A j \in 1..Len(ps) : ps[j] \in SingularEdges

\* the number of hops walked so far
HopsDone == Len(frontiers) - 1

\* hop i was taken from an array frontier and has completed
BatchHop(i) == i \in 1..HopsDone /\ frontiers[i].isArray

\* what entity n's relation h holds, as a list
Targets(n, h) == IF h \in PluralEdges THEN graph.coll[n] ELSE <<graph.ref[n]>>

\* the targets of the first k members of hop i's frontier, member after member
RECURSIVE Concat(_, _)
Concat(i, k) ==
    IF k = 0 THEN <<>>
    ELSE Concat(i, k - 1) \o Targets(frontiers[i].items[k], paths[i])

Cat(i) == Concat(i, Len(frontiers[i].items))

IsNode(x) == x \in Nodes
NoRepeat(xs) == \A a, b \in 1..Len(xs) : a # b => xs[a] # xs[b]

\* the first member of hop i's frontier whose relation holds x
FirstMember(i, x) ==
    CHOOSE k \in 1..Len(frontiers[i].items) :
        /\ x \in Range(Targets(frontiers[i].items[k], paths[i]))
        /\ \A j \in 1..(k - 1) : x \notin Range(Targets(frontiers[i].items[j], paths[i]))

PosIn(xs, x) == CHOOSE a \in 1..Len(xs) : xs[a] = x /\ \A b \in 1..(a - 1) : xs[b] # x

\* the entity reached from n by following the reference once per name of ps
RECURSIVE Follow(_, _)
Follow(n, ps) ==
    IF ps = <<>> \/ n = Undef THEN n ELSE Follow(graph.ref[n], Tail(ps))

\* every reference along ps from n is set
AllPresent(n, ps) == \A k \in 0..Len(ps) : Follow(n, SubSeq(ps, 1, k)) # Undef

\* C1: the recorded hop list is exactly the list of property names the lens
\* function read on the proxy, in access order, and recording calls no
\* .load() on any entity.
C1_PathFidelity ==
    pc # "init" =>
        /\ paths = Names(fn)
        /\ (pc = "loop" /\ idx = 1 => issued = <<>>)

C1_Witness ==
    /\ pc = "loop" /\ idx = 1
    /\ Len(fn) = 3
    /\ fn[1].property # fn[2].property
    /\ fn[2].property = fn[3].property

\* C2: on a path of references that are all set, load returns a single
\* entity (not an array): the one reached by following the references one by
\* one from the root; and unless a .load() rejects, load does not fail.
C2_SingularChain ==
    (pc # "init" /\ AllSingular(paths) /\ AllPresent(self, paths)) =>
        /\ (failures = <<>> => pc # "failed")
        /\ (pc = "done" => result = Single(Follow(self, paths)))

C2_Witness ==
    /\ pc = "done"
    /\ Len(paths) = 3 /\ AllSingular(paths) /\ AllPresent(self, paths)
    /\ result.items[1] # self
    /\ graph.ref[self] # self

\* C3: after a hop taken from an array frontier the new frontier lists the
\* members' targets in frontier order: exactly the targets are there, an
\* entity first held by an earlier member comes before one first held by a
\* later member, entities first held by the same member keep that member's
\* order, and when no entity is held twice the frontier is the concatenation.
C3_FanOutOrder ==
    \A i \in 1..HopsDone : frontiers[i].isArray =>
        LET G == frontiers[i + 1].items
            nodes == SelectSeq(G, IsNode)
        IN /\ frontiers[i + 1].isArray
           /\ Range(nodes) = Range(Cat(i)) \cap Nodes
           /\ \A a, b \in 1..Len(nodes) : a < b =>
                LET ka == FirstMember(i, nodes[a])
                    kb == FirstMember(i, nodes[b])
                    held == Targets(frontiers[i].items[ka], paths[i])
                IN /\ ka <= kb
                   /\ ka = kb => PosIn(held, nodes[a]) < PosIn(held, nodes[b])
           /\ (NoRepeat(Cat(i)) /\ Undef \notin Range(Cat(i))) => G = Cat(i)

C3_Witness ==
    /\ pc = "done"
    /\ paths = <<"books", "author">>
    /\ frontiers[2].items = <<3, 2>>
    /\ graph.ref[3] = 2 /\ graph.ref[2] = 1
    /\ result = Array(<<2, 1>>)

\* C4: after every hop taken from an array frontier, on paths of any length,
\* the new frontier holds no entity twice, and its entities are the first
\* occurrences of the entities of the flattened concatenation, in that order.
C4_Dedup ==
    \A i \in 1..HopsDone : frontiers[i].isArray =>
        LET G == frontiers[i + 1].items
            C == SelectSeq(Cat(i), IsNode)
            firsts == {a \in 1..Len(C) : \A b \in 1..(a - 1) : C[b] # C[a]}
            nodes == SelectSeq(G, IsNode)
        IN /\ NoRepeat(G)
           /\ Len(nodes) = Cardinality(firsts)
           /\ \A a \in 1..Len(nodes) :
                \E c \in firsts :
                    /\ nodes[a] = C[c]
                    /\ Cardinality({d \in firsts : d < c}) = a - 1

\* three hops, the last two from arrays, several members converging on the
\* same entities with another entity between the repeats
C4_Witness ==
    /\ pc = "done"
    /\ Len(paths) = 3
    /\ frontiers[2].isArray /\ Len(frontiers[2].items) >= 2
    /\ Cat(2) = <<1, 2, 1, 3>>
    /\ frontiers[3].items = <<1, 2, 3>>
    /\ Cat(3) = <<2, 3, 1, 2, 1, 3>>
    /\ result = Array(<<2, 3, 1>>)

\* C5 (as claimed): when the last hop is a reference, taken from an array
\* frontier, the returned array holds no undefined element: it holds exactly
\* the entities that the members' references are set to.
C5_AbsentFiltered ==
    (pc = "done" /\ Len(paths) >= 1 /\ paths[Len(paths)] \in SingularEdges
        /\ frontiers[Len(paths)].isArray) =>
        /\ Undef \notin Range(result.items)
        /\ Range(result.items) =
             {graph.ref[m] : m \in Range(frontiers[Len(paths)].items)} \ {Undef}

\* some hop walked so far loaded an unset reference
AbsentResolved ==
    \E i \in 1..HopsDone :
        /\ paths[i] \in SingularEdges
        /\ \E m \in Range(frontiers[i].items) : m # Undef /\ graph.ref[m] = Undef

\* C6 (as claimed): an unset reference, at any hop, does not make load fail:
\* when no .load() has rejected, load has not failed.
C6_AbsentNeverFails ==
    (AbsentResolved /\ failures = <<>>) => pc # "failed"

\* C7 (as claimed): once a .load() has rejected, load has failed with that
\* same error (the first one, when several reject) and has returned nothing.
C7_FailurePropagates ==
    failures # <<>> =>
        /\ pc = "failed"
        /\ error = failures[1]
        /\ result = NoValue

\* C8: with a lens function that reads nothing, load returns the root entity
\* itself and calls no .load().
C8_EmptyPath ==
    (pc # "init" /\ fn = <<>>) =>
        /\ issued = <<>>
        /\ pc \in {"loop", "done"}
        /\ (pc = "done" => result = Single(self))

C8_Witness == pc = "done" /\ fn = <<>> /\ result = Single(self)

\* C9: the frontier is an array exactly from the first collection hop on, at
\* every later hop and at return, also when the later hops are references;
\* the returned value is an array iff some hop of the path is a collection.
C9_Shape ==
    /\ \A i \in 1..Len(frontiers) : frontiers[i].isArray <=> HasPlural(paths, i - 1)
    /\ pc \in {"loop", "await"} => current = frontiers[Len(frontiers)]
    /\ pc = "done" =>
        /\ result.isArray <=> HasPlural(paths, Len(paths))
        /\ result = frontiers[Len(frontiers)]

C9_Witness ==
    /\ pc = "done"
    /\ paths = <<"books", "author", "author">>
    /\ Len(frontiers[2].items) = 2
    /\ result.isArray /\ Len(result.items) = 1 /\ result.items[1] # Undef

\* C10 (as claimed): a lens function that is not a pure chain makes load fail
\* with a MalformedPathError before any .load() is called.
C10_MalformedPathError ==
    (pc # "init" /\ ~IsChain(fn)) =>
        /\ pc = "failed"
        /\ error.kind = "MalformedPathError"
        /\ issued = <<>>

\* C10 (amended): a lens function that is not a pure chain raises no
\* MalformedPathError and aborts nothing: every read is recorded as a hop, in
\* access order, the walk starts, and load fails only once .load() calls
\* have been made, with a TypeError or with a rejected .load()'s error.
C10_NonChainRecorded ==
    (pc # "init" /\ ~IsChain(fn)) =>
        /\ paths = Names(fn)
        /\ (issued = <<>> => pc = "loop" /\ error = NoError)
        /\ (pc = "failed" => error.kind \in {"TypeError", "EdgeResolutionError"})

C10_Witness ==
    /\ ~IsChain(fn)
    /\ pc = "done"
    /\ Len(issued) >= 2
    /\ paths = <<"books", "author">>

\* the entities that .load() was called on for hop i, in call order
RECURSIVE NodesIssuedAt(_, _)
NodesIssuedAt(i, n) ==
    IF n = 0 THEN <<>>
    ELSE IF issued[n].at = i THEN Append(NodesIssuedAt(i, n - 1), issued[n].node)
    ELSE NodesIssuedAt(i, n - 1)

\* C11: no .load() of a later hop is called before every .load() promise of
\* the hop before it has fulfilled, in whatever order they fulfil: whenever
\* load calls .load(), no promise of the previous batch is outstanding.
C11_HopsSequential ==
    [][issued' # issued => \A k \in 1..Len(pending) : pending[k].status = "fulfilled"]_vars

\* the third hop has been issued after a batch of two or more, and its own
\* promises are settling out of position order
C11_Witness ==
    /\ pc = "await" /\ idx = 3
    /\ Len(frontiers[2].items) >= 2
    /\ NodesIssuedAt(3, Len(issued)) = frontiers[3].items
    /\ Len(pending) >= 2
    /\ pending[1].status = "pending" /\ pending[2].status = "fulfilled"

\* the values of the batch's promises, promise after promise by position
RECURSIVE ByPosition(_)
ByPosition(n) ==
    IF n = 0 THEN <<>> ELSE ByPosition(n - 1) \o pending[n].value.items

\* the first occurrences of the values of xs, in order
FirstOccurrences(xs) ==
    LET firsts == {a \in 1..Len(xs) : \A b \in 1..(a - 1) : xs[b] # xs[a]}
        nth(r) == CHOOSE c \in firsts : Cardinality({d \in firsts : d < c}) = r - 1
    IN [r \in 1..Cardinality(firsts) |-> xs[nth(r)]]

\* C13: the frontier after a hop from an array, and so the value load
\* returns, is put together from the promises' values by their position in
\* the batch, whatever the order in which the promises fulfilled.
C13_OrderIndependent ==
    (pc \in {"loop", "done"} /\ HopsDone >= 1 /\ frontiers[HopsDone].isArray) =>
        /\ Len(pending) = Len(frontiers[HopsDone].items)
        /\ \A k \in 1..Len(pending) : pending[k].node = frontiers[HopsDone].items[k]
        /\ current = Array(FirstOccurrences(ByPosition(Len(pending))))
        /\ (pc = "done" => result = current)

\* the second member's promise fulfilled before the first one's, and the
\* returned array still lists the first member's target first
C13_Witness ==
    /\ pc = "done"
    /\ paths = <<"books", "author">>
    /\ Len(pending) = 2
    /\ pending[2].order = 1 /\ pending[1].order = 2
    /\ pending[1].value = Single(2) /\ pending[2].value = Single(1)
    /\ result = Array(<<2, 1>>)

\* hop i, taken from an array frontier, has been issued
Started(i) ==
    /\ i \in 1..Len(frontiers)
    /\ frontiers[i].isArray
    /\ i <= HopsDone \/ pc \in {"await", "failed"}

\* C14 (as claimed): in a hop taken from an array frontier, .load() is called
\* exactly once per frontier member, in frontier order, all calls being made
\* before load waits for any of them.
C14_OneCallPerMember ==
    \A i \in 1..Len(frontiers) :
        Started(i) => NodesIssuedAt(i, Len(issued)) = frontiers[i].items

\* C15: once a .load() promise has rejected, load calls no further .load():
\* the remaining hops are not walked.
C15_AbortAfterFailure ==
    [][failures # <<>> => issued' = issued]_vars

C15_Witness ==
    /\ pc = "failed"
    /\ error.kind = "EdgeResolutionError"
    /\ failures # <<>>
    /\ idx = 1 /\ Len(paths) = 3
    /\ Len(issued) = 1

\* C12 (as claimed): after every hop that fans out, the one taken from the
\* single root included, the frontier holds no entity twice, and neither
\* does the array load returns.
C12_DedupAfterEveryFanOut ==
    /\ \A i \in 1..Len(frontiers) : frontiers[i].isArray => NoRepeat(frontiers[i].items)
    /\ (pc = "done" /\ result.isArray) => NoRepeat(result.items)

\* C12 (amended): the frontier is de-duplicated after every hop taken from
\* an array frontier; after a hop taken from a single entity it is the loaded
\* value as it is, so the returned array holds an entity twice only when its
\* last hop is the collection hop taken from the single entity.
C12_DedupAfterBatchOnly ==
    /\ \A i \in 1..HopsDone :
        IF frontiers[i].isArray
        THEN NoRepeat(frontiers[i + 1].items)
        ELSE frontiers[i + 1] =
                (IF paths[i] \in PluralEdges
                 THEN Array(graph.coll[frontiers[i].items[1]])
                 ELSE Single(graph.ref[frontiers[i].items[1]]))
    /\ (pc = "done" /\ result.isArray /\ ~NoRepeat(result.items)) =>
            /\ ~frontiers[HopsDone].isArray
            /\ result = Array(graph.coll[frontiers[HopsDone].items[1]])

C12_Witness ==
    /\ pc = "done"
    /\ paths = <<"author", "books">>
    /\ result = Array(<<3, 1, 3>>)

Finished == pc \in {"done", "failed"}

\* C17: when every .load() promise eventually settles, every call of load
\* eventually returns or fails, and it walks at most one batch per recorded
\* name, on graphs with cycles too.
C17_Terminates ==
    /\ [](/\ HopsDone <= Len(paths)
          /\ \A i \in 1..Len(issued) : issued[i].at \in 1..Len(paths)
          /\ \A i, j \in 1..Len(issued) : i < j => issued[i].at <= issued[j].at)
    /\ (pc # "init") ~> Finished

\* a walk three times around a cycle of two references
C17_Witness ==
    /\ pc = "done"
    /\ self = 1 /\ graph.ref[1] = 2 /\ graph.ref[2] = 1 /\ graph.coll = Ring
    /\ paths = <<"author", "author", "author">>
    /\ result = Single(2)

\* C18: once the lens function has returned, the list of names the walk
\* replays never changes: not by the walker, not by a later read of the probe.
C18_PathFixed == [][pc # "init" => paths' = paths]_vars

\* what load(f) on entity n returns when nothing else runs and no .load()
\* rejects; NoValue when it throws
RECURSIVE WalkFrom(_, _)
WalkFrom(cur, ps) ==
    IF ps = <<>> THEN cur
    ELSE IF Undef \in Range(cur.items) THEN NoValue
    ELSE IF cur.isArray
         THEN WalkFrom(Array(FirstOccurrences(
                  Flat([i \in 1..Len(cur.items) |-> Resolve(cur.items[i], Head(ps))]))),
                  Tail(ps))
         ELSE WalkFrom(Resolve(cur.items[1], Head(ps)), Tail(ps))

WalkAlone(n, f) == WalkFrom(Single(n), Names(f))

\* C16: of two interleaved calls of load, each replays the names its own
\* lens function read, and each returns (or throws) what it returns when it
\* runs alone.
C16_Isolated ==
    /\ pc # "init" => paths = Names(fn)
    /\ other.pc # "init" => other.paths = Names(other.fn)
    /\ pc = "done" => result = WalkAlone(self, fn)
    /\ other.pc = "done" => other.result = WalkAlone(other.self, other.fn)
    /\ (pc = "failed" /\ error = TypeError) => WalkAlone(self, fn) = NoValue
    /\ (other.pc = "failed" /\ other.error = TypeError) =>
            WalkAlone(other.self, other.fn) = NoValue

\* both calls started on the same root, each has walked its first hop and
\* awaits its second, and their frontiers differ
C16_Witness ==
    /\ pc = "await" /\ idx = Advance(1)
    /\ other.pc = "await" /\ other.idx = Advance(1)
    /\ self = other.self
    /\ fn # other.fn
    /\ current # other.current

\* how often x occurs in xs
Count(xs, x) == Cardinality({k \in 1..Len(xs) : xs[k] = x})

\* the publisher's authors and their books
OwnAuthors == Range(em.authors)
OwnBooks == UNION {Range(em.books[a]) : a \in OwnAuthors}

\* how often image v belongs to the publisher: as its own image, as the
\* image of one of its authors, as the image of a book of one of its authors
Belongs(im, v) ==
    (IF im[v].publisher = Pub THEN 1 ELSE 0)
    + (IF im[v].author \in OwnAuthors THEN 1 ELSE 0)
    + (IF im[v].book \in OwnBooks THEN 1 ELSE 0)

\* C19: allImages.get returns the publisher's own images, the image of each
\* of its authors and the image of each book of each of its authors, each
\* as often as it belongs, without any undefined, in non-decreasing
\* sortOrder of the image type.
C19_AllImagesGet ==
    em.op.name = "get" =>
        /\ \A k \in 1..Len(em.op.returned) : em.op.returned[k] \in Images
        /\ \A v \in Images : Count(em.op.returned, v) = Belongs(em.image, v)
        /\ \A a, b \in 1..Len(em.op.returned) : a < b =>
               em.sortOrder[em.image[em.op.returned[a]].type]
                   <= em.sortOrder[em.image[em.op.returned[b]].type]

\* an own image, an author's image and a book's image are returned, the
\* own image last although images.get came first, and an author without
\* image contributed nothing
C19_Witness ==
    /\ em.op.name = "get"
    /\ Len(em.op.returned) = NumImages
    /\ em.image[em.op.returned[1]].book \in OwnBooks
    /\ em.image[em.op.returned[Len(em.op.returned)]].publisher = Pub
    /\ \E v \in Images : em.image[v].author \in OwnAuthors
    /\ \E a \in OwnAuthors : \A v \in Images : em.image[v].author # a
    /\ em.sortOrder[em.image[em.op.returned[1]].type]
         < em.sortOrder[em.image[em.op.returned[Len(em.op.returned)]].type]

\* C20: add(value) changes nothing when value belongs to allImages, and
\* otherwise makes value a PublisherImage of the entity with author and book
\* unset, touching no other image and deleting nothing; remove(value)
\* deletes value when it belongs to allImages and changes nothing otherwise.
C20_AddRemoveFrame ==
    [][/\ em'.op.name = "add" =>
            /\ em'.deleted = em.deleted
            /\ \A w \in Images : w # em'.op.value => em'.image[w] = em.image[w]
            /\ IF Belongs(em.image, em'.op.value) > 0
               THEN em'.image = em.image
               ELSE em'.image[em'.op.value] = ImageOf("PublisherImage", None, None, Pub)
       /\ em'.op.name = "remove" =>
            /\ em'.image = em.image
            /\ em'.deleted = IF Belongs(em.image, em'.op.value) > 0
                             THEN em.deleted \cup {em'.op.value}
                             ELSE em.deleted
       /\ em'.op.name \in {"add", "remove"} =>
            /\ em'.authors = em.authors /\ em'.books = em.books
            /\ em'.sortOrder = em.sortOrder]_vars

\* an image that did not belong was added and now does; an image that
\* belonged has been deleted
C20_Witness ==
    /\ em.op.name = "add"
    /\ ~em.op.included
    /\ em.image[em.op.value] = ImageOf("PublisherImage", None, None, Pub)
    /\ \E w \in Images : w # em.op.value /\ Belongs(em.image, w) = 0
    /\ \E w \in em.deleted : w # em.op.value

====
